---- MODULE Spec2Model ----
(***************************************************************************)
(* Glassmorphic music player: the MusicPlayer component, the Home page     *)
(* player and the AudioVisualizer, modelled as three React components.     *)
(* Every action is one event handler together with the re-render and the   *)
(* effects React runs for the state it changed.                            *)
(***************************************************************************)
EXTENDS Integers, Sequences, FiniteSets, TLC

VARIABLES player, home, vis, settings, lib, tabs, store, upload, lastOp

vars == <<player, home, vis, settings, lib, tabs, store, upload, lastOp>>

(***************************************************************************)
(* Bounds                                                                  *)
(***************************************************************************)
\* longest playlist handed to MusicPlayer
MaxTracks == 3
\* number of slider steps between volume 0 and volume 1 (the source has 100)
VolSteps == 3
\* how far outside [0, VolSteps] a raw slider value is drawn
VolOver == 1
\* most uploads on the Home page
MaxSongs == 2
\* most animation-frame callbacks of the Home page pending at once
MaxFrames == 3
\* most audio-context resumes of the visualizer in flight at once
MaxPending == 2
\* longest music library
MaxLibrary == 3
\* most storage events waiting for one tab
MaxEvents == 2
\* most entries of localStorage
MaxItems == 7
\* last value of the millisecond clock of the audio store
MaxStoreClock == 2
\* most files FileUpload hands to onFileUpload
MaxUploads == 3
\* last value of the millisecond clock
MaxClock == 3

TrackIds == {"A", "B", "C"}
NoTrack == "null"
Undefined == "undefined"

IsTrack(t) == t \in TrackIds

\* length of a track in time units, as the decoder reports it
DurationOf(t) == IF t = "A" THEN 1 ELSE 2

Range(s) == {s[i] : i \in 1..Len(s)}

Min(S) == CHOOSE x \in S : \A y \in S : x <= y

\* JavaScript's remainder on the operands the player uses (dividend >= 0)
JsMod(a, n) == a % n

(***************************************************************************)
(* MusicPlayer (src/components/MusicPlayer.js)                             *)
(***************************************************************************)

\* Array.prototype.findIndex(track => track.id === id): 0-based, -1 if absent
findIndex(pl, id) ==
  IF \E i \in 1..Len(pl) : pl[i] = id
  THEN Min({i \in 1..Len(pl) : pl[i] = id}) - 1
  ELSE -1

\* playlist[i] with a 0-based index: undefined outside the array
At(pl, i) == IF i \in 0..(Len(pl) - 1) THEN pl[i + 1] ELSE Undefined

\* the volume effect: audio.volume = isMuted ? 0 : volume
EffectiveVolume(s) == IF s.isMuted THEN 0 ELSE s.volume

\* the <audio> element after the render that turns o into n: it is mounted
\* only while a track is current; a new element starts at the default volume 1;
\* a changed src makes the element load the new resource, which stops playback
RenderAudio(o, n) ==
  IF ~IsTrack(n.currentTrack)
  THEN [n EXCEPT !.audioMounted = FALSE, !.audioSrc = NoTrack, !.audioPlaying = FALSE,
                 !.audioVolume = VolSteps, !.audioTime = 0, !.audioMeta = FALSE]
  ELSE IF ~o.audioMounted
  THEN [n EXCEPT !.audioMounted = TRUE, !.audioSrc = n.currentTrack, !.audioPlaying = FALSE,
                 !.audioVolume = VolSteps, !.audioTime = 0, !.audioMeta = FALSE]
  ELSE IF n.currentTrack # o.audioSrc
  THEN [n EXCEPT !.audioSrc = n.currentTrack, !.audioPlaying = FALSE,
                 !.audioTime = 0, !.audioMeta = FALSE]
  ELSE n

\* the listener effect, deps [currentTrack]: cleanup removes the old listeners,
\* the body registers new ones whose closure holds this render's props
ListenerEffect(o, n) ==
  IF n.currentTrack = o.currentTrack THEN n
  ELSE IF n.audioMounted
  THEN [n EXCEPT !.lsnOn = TRUE, !.lsnPlaylist = n.playlist, !.lsnTrack = n.currentTrack]
  ELSE [n EXCEPT !.lsnOn = FALSE, !.lsnPlaylist = <<>>, !.lsnTrack = NoTrack]

\* the volume effect, deps [volume, isMuted]
VolumeEffect(o, n) ==
  IF (n.volume # o.volume \/ n.isMuted # o.isMuted) /\ n.audioMounted
  THEN [n EXCEPT !.audioVolume = EffectiveVolume(n)]
  ELSE n

\* one React commit: render, then the effects whose deps changed
Commit(o, n) == VolumeEffect(o, ListenerEffect(o, RenderAudio(o, n)))

\* the parent's onTrackChange(record): the record becomes the currentTrack prop
onTrackChange(s, record) == Commit(s, [s EXCEPT !.currentTrack = record])

NextIndexMutant(currentIndex, length) == currentIndex + 1
NextIndex(currentIndex, length) == JsMod(currentIndex + 1, length)

PrevIndexMutant(currentIndex, length) == IF currentIndex = 0 THEN 0 ELSE currentIndex - 1
PrevIndex(currentIndex, length) == IF currentIndex = 0 THEN length - 1 ELSE currentIndex - 1

\* handleNext with the props (pl, cur) of the render that created it
handleNext(s, pl, cur) ==
  IF Len(pl) = 0 THEN s
  ELSE onTrackChange(s, At(pl, NextIndex(findIndex(pl, cur), Len(pl))))

handlePrevious(s, pl, cur) ==
  IF Len(pl) = 0 THEN s
  ELSE onTrackChange(s, At(pl, PrevIndex(findIndex(pl, cur), Len(pl))))

\* the 'ended' listener: its handleNext is the one of the render that
\* registered the listener
handleEnded(s) ==
  handleNext([s EXCEPT !.isPlaying = FALSE, !.audioPlaying = FALSE],
             s.lsnPlaylist, s.lsnTrack)

\* togglePlayPause; ok: whether the promise of audio.play() is fulfilled
togglePlayPause(s, ok) ==
  IF ~s.audioMounted \/ ~IsTrack(s.currentTrack) THEN s
  ELSE IF s.isPlaying
  THEN [s EXCEPT !.audioPlaying = FALSE, !.isPlaying = FALSE]
  ELSE [s EXCEPT !.audioPlaying = ok,
                 !.audioTime = IF ok /\ @ = DurationOf(s.audioSrc) THEN 0 ELSE @,
                 !.isPlaying = TRUE]

\* <input type="range" min="0" max="1">: the element keeps its value in range
SliderValueMutant(raw) == raw
SliderValue(raw) == IF raw < 0 THEN 0 ELSE IF raw > VolSteps THEN VolSteps ELSE raw

handleVolumeChange(s, newVolume) ==
  Commit(s, [s EXCEPT !.volume = newVolume, !.isMuted = (newVolume = 0)])

toggleMuteMutant(s) == Commit(s, [s EXCEPT !.isMuted = TRUE])
toggleMute(s) == Commit(s, [s EXCEPT !.isMuted = ~s.isMuted])

\* handleProgressClick; fraction = clickX / rect.width. The element keeps its
\* own position within the loaded resource, the state takes newTime as computed
handleProgressClick(s, fraction) ==
  IF ~s.audioMounted THEN s
  ELSE LET newTime == fraction * s.duration
       IN [s EXCEPT !.audioTime = IF newTime > DurationOf(s.audioSrc)
                                  THEN DurationOf(s.audioSrc) ELSE newTime,
                    !.currentTime = newTime]

PlayerInit ==
  [playlist |-> <<>>, currentTrack |-> NoTrack, isPlaying |-> FALSE,
   currentTime |-> 0, duration |-> 0, volume |-> VolSteps, isMuted |-> FALSE,
   audioMounted |-> FALSE, audioSrc |-> NoTrack, audioPlaying |-> FALSE,
   audioVolume |-> VolSteps, audioTime |-> 0, audioMeta |-> FALSE,
   lsnOn |-> FALSE, lsnPlaylist |-> <<>>, lsnTrack |-> NoTrack]


(***************************************************************************)
(* Home page player (src/hooks/useLocalStorage.js, lines 352-656)          *)
(***************************************************************************)
SongIds == {"X", "Y"}
\* songs whose bytes the decoder cannot bind (a corrupt MP3)
UnbindableSongs == {"X"}

\* the effect on [songs]: a non-empty list is written to 'musicPlayerSongs'
persistSongs(s) == IF Len(s.songs) > 0 THEN [s EXCEPT !.stored = s.songs] ELSE s

\* handleFileUpload for one MP3 file: URL.createObjectURL gives a blob URL that
\* lives as long as this document; live holds the songs whose URL is valid
handleFileUpload(s, song) ==
  persistSongs([s EXCEPT !.songs = Append(@, song), !.live = @ \cup {song}])

\* initializeAudioContext: builds the analysis graph once; audioRef.current is
\* the always-rendered <audio> element
initializeAudioContextMutant(s) == [s EXCEPT !.ctx = TRUE, !.connects = @ + 1]
initializeAudioContext(s) ==
  IF ~s.ctx THEN [s EXCEPT !.ctx = TRUE, !.connects = @ + 1] ELSE s

\* updateAudioData: pulls a snapshot, publishes it and re-arms itself; the id
\* of the frame request is stored in animationIdRef.useRef, never in .current
updateAudioData(s) ==
  IF s.ctx
  THEN [s EXCEPT !.audioData = TRUE, !.frames = @ + 1, !.animationIdUseRef = TRUE]
  ELSE s

\* pauseSong: cancels the frame request named by animationIdRef.current
pauseSong(s) ==
  LET p == [s EXCEPT !.audioPlaying = FALSE, !.isPlaying = FALSE]
  IN IF p.animationIdCurrent /\ p.frames > 0
     THEN [p EXCEPT !.frames = @ - 1]
     ELSE p

playSong(s, song) ==
  IF s.currentSong = song /\ s.isPlaying THEN pauseSong(s)
  ELSE updateAudioData(initializeAudioContext(
         [s EXCEPT !.currentSong = song,
                   !.audioSrc = song, !.audioTime = 0, !.audioMeta = FALSE,
                   !.audioPlaying = (song \notin UnbindableSongs /\ song \in s.live),
                   !.isPlaying = TRUE]))

\* Home.handleVolumeChange: setVolume(newVolume); audio.volume = newVolume
homeHandleVolumeChange(s, newVolume) ==
  [s EXCEPT !.volume = newVolume, !.audioVolume = newVolume]

HomeInit ==
  [songs |-> <<>>, currentSong |-> NoTrack, isPlaying |-> FALSE,
   currentTime |-> 0, duration |-> 0, volume |-> VolSteps,
   audioSrc |-> NoTrack, audioPlaying |-> FALSE, audioTime |-> 0,
   audioMeta |-> FALSE, audioVolume |-> VolSteps, audioData |-> FALSE,
   ctx |-> FALSE, connects |-> 0, frames |-> 0,
   animationIdCurrent |-> FALSE, animationIdUseRef |-> FALSE,
   stored |-> <<>>, live |-> {}]

(***************************************************************************)
(* AudioVisualizer (src/components/FileUpload.js, lines 158-314)           *)
(***************************************************************************)
Elements == {"el1", "el2"}

\* cancelAnimationFrame(animationIdRef.current), guarded by the ref being set
cancelFrameMutant(s) == s
cancelFrame(s) ==
  IF s.refSet /\ s.refLive
  THEN [s EXCEPT !.frames = @ - 1, !.refLive = FALSE]
  ELSE s

\* draw: pulls a snapshot, paints it and requests the next frame
draw(s) ==
  IF s.ctx = "none" THEN s
  ELSE [s EXCEPT !.frames = @ + 1, !.refSet = TRUE, !.refLive = TRUE]

\* the draw effect, deps [isInitialized, isPlaying]: the previous run's cleanup,
\* then the body
DrawEffect(s) ==
  LET c == IF s.drawCleanup THEN cancelFrame(s) ELSE s
  IN IF ~c.isInitialized \/ ~c.isPlaying \/ c.ctx = "none"
     THEN [cancelFrame(c) EXCEPT !.drawCleanup = FALSE]
     ELSE [draw(c) EXCEPT !.drawCleanup = TRUE]

\* setIsInitialized(true) and the commit it causes
setIsInitialized(s) ==
  IF s.isInitialized THEN s ELSE DrawEffect([s EXCEPT !.isInitialized = TRUE])

\* the body of the audioElement effect; st is the state a new AudioContext starts
\* in. createMediaElementSource throws for an element that already feeds a
\* source; the catch block then ends the function
InitBody(s, st) ==
  IF s.audioElement = NoTrack THEN [s EXCEPT !.initCleanup = FALSE]
  ELSE LET created == s.ctx = "none"
           throws == created /\ s.source = NoTrack /\ s.audioElement \in s.connected
           c == IF created
                THEN IF s.source # NoTrack \/ throws
                     THEN [s EXCEPT !.ctx = st]
                     ELSE [s EXCEPT !.ctx = st,
                                    !.source = s.audioElement,
                                    !.connects = @ + 1,
                                    !.connected = @ \cup {s.audioElement}]
                ELSE s
           d == [c EXCEPT !.initCleanup = TRUE]
       IN IF throws THEN d
          ELSE IF d.ctx = "suspended"
          THEN [d EXCEPT !.pendingLive = @ + 1]
          ELSE setIsInitialized(d)

\* the cleanup of the audioElement effect; the resumes its body awaits stay in flight
InitCleanup(s) ==
  IF s.initCleanup
  THEN [cancelFrame(s) EXCEPT !.pendingStale = @ + s.pendingLive, !.pendingLive = 0]
  ELSE s

\* teardown: the cleanups of both effects, as far as they were registered
Teardown(s) ==
  LET a == InitCleanup(s)
  IN IF a.drawCleanup THEN cancelFrame(a) ELSE a

VisInit ==
  [mounted |-> FALSE, audioElement |-> NoTrack, isPlaying |-> FALSE,
   isInitialized |-> FALSE, ctx |-> "none", source |-> NoTrack, connects |-> 0,
   pendingLive |-> 0, pendingStale |-> 0, frames |-> 0,
   refSet |-> FALSE, refLive |-> FALSE,
   initCleanup |-> FALSE, drawCleanup |-> FALSE, connected |-> {}]

(***************************************************************************)
(* usePlayerSettings and useMusicLibrary (src/hooks/useLocalStorage.js)    *)
(***************************************************************************)
\* the initial value of usePlayerSettings, as far as the player could read it
SettingsInit == [repeat |-> FALSE, shuffle |-> FALSE]

\* updateSetting(key, value): setSettings(prev => ({ ...prev, [key]: value }))
updateSetting(s, key, value) == [s EXCEPT ![key] = value]

\* useMusicLibrary over an empty store. library is the hook's state,
\* rendered the storedValue the latest render handed to setValue, item the
\* value under the key 'musicLibrary' (absent reads as the initial []), now
\* the value Date.now() returns
LibInit == [library |-> <<>>, rendered |-> <<>>, item |-> <<>>, now |-> 0]

\* setValue, given the value it computed; ok: localStorage.setItem does not
\* throw. setStoredValue runs before the write, the catch block only logs
setValue(l, valueToStore, ok) ==
  [l EXCEPT !.library = valueToStore,
            !.item = IF ok THEN valueToStore ELSE @]

\* the re-render after a handler: setValue closes over the new storedValue
Render(l) == [l EXCEPT !.rendered = l.library]

\* addTrack(track): setLibrary(prev => [...prev, { ...track, id: Date.now() }]);
\* the hook applies the function to the rendered storedValue
addTrack(l, ok) == setValue(l, Append(l.rendered, l.now), ok)

\* removeTrack(id): setLibrary(prev => prev.filter(track => track.id !== id))
removeTrack(l, id, ok) == setValue(l, SelectSeq(l.rendered, LAMBDA x : x # id), ok)

\* clearLibrary(): setLibrary([])
clearLibrary(l, ok) == setValue(l, <<>>, ok)

(***************************************************************************)
(* useLocalStorage in two tabs on one key (lines 3-58)                     *)
(***************************************************************************)
TabIds == {1, 2}
Values == {"a", "b"}
initialValue == "initial"
\* getItem of a key that was never written
NoItem == "null"

\* JSON.stringify and JSON.parse on the values the tabs store
JSONstringify(v) ==
  CASE v = "a" -> "\"a\"" [] v = "b" -> "\"b\"" [] OTHER -> "\"initial\""
JSONparse(text) ==
  CASE text = "\"a\"" -> "a" [] text = "\"b\"" -> "b" [] text = "\"initial\"" -> "initial"
    [] OTHER -> "SyntaxError"

OtherTab(t) == 3 - t

\* setValue(value) in tab t: the state of this tab and the item change at once;
\* the browser queues a storage event for the other tab if the item changed
tabSetValue(s, t, value) ==
  LET text == JSONstringify(value)
  IN [s EXCEPT !.storedValue[t] = value,
               !.item = text,
               !.events[OtherTab(t)] = IF text # s.item THEN Append(@, text) ELSE @]

\* handleStorageChange(e) in tab t for the oldest queued event; e.key === key
\* and e.newValue is the text written
handleStorageChange(s, t) ==
  LET newValue == Head(s.events[t])
      d == [s EXCEPT !.events[t] = Tail(@)]
  IN IF newValue # NoItem /\ JSONparse(newValue) # "SyntaxError"
     THEN [d EXCEPT !.storedValue[t] = JSONparse(newValue)]
     ELSE d

TabsInit ==
  [item |-> NoItem,
   storedValue |-> [t \in TabIds |-> initialValue],
   events |-> [t \in TabIds |-> <<>>]]

(***************************************************************************)
(* Audio storage utilities (src/hooks/useLocalStorage.js, lines 224-316)   *)
(***************************************************************************)
\* localStorage as the list of its entries in the order localStorage.key(i)
\* walks them; an entry is named by its place. audio: the key starts with
\* 'audio_'; hasTs: the stored object has a timestamp field; savedAt: the
\* millisecond of the write (the value of that field when it is there)
Entry(audio, hasTs, savedAt) == [audio |-> audio, hasTs |-> hasTs, savedAt |-> savedAt]

\* (track.timestamp || 0)
timestampOr0(e) == IF e.hasTs THEN e.savedAt ELSE 0

\* slice(5)
KeepRecent == 5

RECURSIVE insertSorted(_, _, _)
insertSorted(sorted, i, items) ==
  IF sorted = <<>> THEN <<i>>
  ELSE IF timestampOr0(items[Head(sorted)]) >= timestampOr0(items[i])
       THEN <<Head(sorted)>> \o insertSorted(Tail(sorted), i, items)
       ELSE <<i>> \o sorted

\* tracks.sort((a, b) => (b.timestamp || 0) - (a.timestamp || 0)): newest
\* first, entries that compare equal keep their order
RECURSIVE sortNewestFirst(_, _)
sortNewestFirst(idx, items) ==
  IF idx = <<>> THEN <<>>
  ELSE insertSorted(sortNewestFirst(SubSeq(idx, 1, Len(idx) - 1), items),
                    idx[Len(idx)], items)

\* getAllSavedTracks: the places of the 'audio_' entries, newest first
getAllSavedTracks(items) ==
  sortNewestFirst(SelectSeq([i \in 1..Len(items) |-> i], LAMBDA i : items[i].audio),
                  items)

tracksToRemoveMutant(tracks) == SubSeq(tracks, 1, Len(tracks) - KeepRecent)
\* const tracksToRemove = tracks.slice(5)
tracksToRemove(tracks) == SubSeq(tracks, KeepRecent + 1, Len(tracks))

RECURSIVE removeItems(_, _, _)
removeItems(items, i, gone) ==
  IF i > Len(items) THEN <<>>
  ELSE (IF i \in gone THEN <<>> ELSE <<items[i]>>) \o removeItems(items, i + 1, gone)

\* clearOldAudioData: removeFromLocalStorage(track.key) for each track to remove
clearOldAudioData(st) ==
  [st EXCEPT !.items = removeItems(@, 1, Range(tracksToRemove(getAllSavedTracks(@))))]

\* saveToLocalStorage(key, audioData) under a new 'audio_' key; outcome is what
\* the first setItem does, retryOk whether the second setItem succeeds
saveToLocalStorage(st, outcome, retryOk) ==
  IF outcome = "ok"
  THEN [st EXCEPT !.items = Append(@, Entry(TRUE, TRUE, st.now))]
  ELSE IF outcome = "QuotaExceededError"
  THEN LET c == clearOldAudioData(st)
       IN IF retryOk
          THEN [c EXCEPT !.items = Append(@, Entry(TRUE, FALSE, st.now))]
          ELSE c
  ELSE st

StoreInit == [items |-> <<>>, now |-> 0]

(***************************************************************************)
(* FileUpload (src/components/FileUpload.js, lines 1-157)                  *)
(***************************************************************************)
\* 50 * 1024 * 1024
SizeLimit == 52428800

FileTypes == {"audio/mpeg", "audio/mpegurl", "audio/wav", ""}
FileNames == {"song.mp3", "SONG.MP3", "song.wav"}
FileSizes == {SizeLimit - 1, SizeLimit, SizeLimit + 1}
Files == [type : FileTypes, name : FileNames, size : FileSizes]
NoFile == [type |-> "", name |-> "", size |-> 0]

\* file.type.includes('audio/mpeg')
includesAudioMpeg(type) == type \in {"audio/mpeg", "audio/mpegurl"}

\* file.name.toLowerCase()
toLowerCase(name) ==
  CASE name = "SONG.MP3" -> "song.mp3" [] OTHER -> name

\* name.endsWith('.mp3')
endsWithMp3(name) == name \in {"song.mp3"}

\* handleFileSelect(file); hasFile is FALSE when the selection is empty.
\* uploaded and calls record what onFileUpload received
handleFileSelect(s, hasFile, file) ==
  LET c == [s EXCEPT !.uploadError = ""]
  IN IF ~hasFile THEN c
     ELSE IF ~includesAudioMpeg(file.type) /\ ~endsWithMp3(toLowerCase(file.name))
     THEN [c EXCEPT !.uploadError = "Please select an MP3 file only"]
     ELSE IF file.size > SizeLimit
     THEN [c EXCEPT !.uploadError = "File size must be less than 50MB"]
     ELSE [c EXCEPT !.uploaded = file, !.calls = @ + 1]

UploadInit == [uploadError |-> "", uploaded |-> NoFile, calls |-> 0]

Init ==
  /\ player = PlayerInit /\ home = HomeInit /\ vis = VisInit
  /\ settings = SettingsInit /\ lib = LibInit
  /\ tabs = TabsInit /\ store = StoreInit /\ upload = UploadInit
  /\ lastOp = "init"

\* ---- the parent of MusicPlayer: it owns the playlist and the current track
Without(pl, t) == SelectSeq(pl, LAMBDA x : x # t)

AddTrack ==
  \E t \in TrackIds \ Range(player.playlist) :
    /\ Len(player.playlist) < MaxTracks
    /\ player' = Commit(player, [player EXCEPT !.playlist = Append(@, t)])
    /\ lastOp' = "addTrack"
    /\ UNCHANGED <<home, vis, settings, lib, tabs, store, upload>>

RemoveTrack ==
  \E t \in Range(player.playlist) :
    /\ player' = Commit(player, [player EXCEPT !.playlist = Without(@, t)])
    /\ lastOp' = "removeTrack"
    /\ UNCHANGED <<home, vis, settings, lib, tabs, store, upload>>

SelectTrack ==
  \E t \in Range(player.playlist) \cup {NoTrack} :
    /\ t # player.currentTrack
    /\ player' = onTrackChange(player, t)
    /\ lastOp' = "selectTrack"
    /\ UNCHANGED <<home, vis, settings, lib, tabs, store, upload>>

\* ---- MusicPlayer's own events
\* the controls are rendered only while a track is current (lines 101-109);
\* the skip buttons are disabled while the playlist has at most one entry
Next_ ==
  /\ IsTrack(player.currentTrack)
  /\ Len(player.playlist) > 1
  /\ player' = handleNext(player, player.playlist, player.currentTrack)
  /\ lastOp' = "next"
  /\ UNCHANGED <<home, vis, settings, lib, tabs, store, upload>>

Previous ==
  /\ IsTrack(player.currentTrack)
  /\ Len(player.playlist) > 1
  /\ player' = handlePrevious(player, player.playlist, player.currentTrack)
  /\ lastOp' = "previous"
  /\ UNCHANGED <<home, vis, settings, lib, tabs, store, upload>>

\* the decoder reaches the end of the stream
Ended ==
  /\ player.lsnOn
  /\ player.audioPlaying
  /\ player.audioTime = DurationOf(player.audioSrc)
  /\ player' = handleEnded(player)
  /\ lastOp' = "ended"
  /\ UNCHANGED <<home, vis, settings, lib, tabs, store, upload>>

PlayOk ==
  /\ IsTrack(player.currentTrack)
  /\ ~player.isPlaying
  /\ player' = togglePlayPause(player, TRUE)
  /\ lastOp' = "play"
  /\ UNCHANGED <<home, vis, settings, lib, tabs, store, upload>>

PlayRejected ==
  /\ IsTrack(player.currentTrack)
  /\ ~player.isPlaying
  /\ player' = togglePlayPause(player, FALSE)
  /\ lastOp' = "playRejected"
  /\ UNCHANGED <<home, vis, settings, lib, tabs, store, upload>>

Pause ==
  /\ IsTrack(player.currentTrack)
  /\ player.isPlaying
  /\ player' = togglePlayPause(player, TRUE)
  /\ lastOp' = "pause"
  /\ UNCHANGED <<home, vis, settings, lib, tabs, store, upload>>

\* 'timeupdate': the decoder advanced; updateTime copies audio.currentTime
TimeUpdate ==
  /\ player.lsnOn
  /\ player.audioPlaying
  /\ player.audioTime < DurationOf(player.audioSrc)
  /\ player' = [player EXCEPT !.audioTime = @ + 1, !.currentTime = player.audioTime + 1]
  /\ lastOp' = "timeupdate"
  /\ UNCHANGED <<home, vis, settings, lib, tabs, store, upload>>

\* 'loadedmetadata': updateDuration copies audio.duration
LoadedMetadata ==
  /\ player.lsnOn
  /\ ~player.audioMeta
  /\ player' = [player EXCEPT !.audioMeta = TRUE, !.duration = DurationOf(player.audioSrc)]
  /\ lastOp' = "loadedmetadata"
  /\ UNCHANGED <<home, vis, settings, lib, tabs, store, upload>>

\* the range input fires a change event only for a value other than the one shown
VolumeChange(raw) ==
  /\ IsTrack(player.currentTrack)
  /\ SliderValue(raw) # EffectiveVolume(player)
  /\ player' = handleVolumeChange(player, SliderValue(raw))
  /\ lastOp' = "volume"
  /\ UNCHANGED <<home, vis, settings, lib, tabs, store, upload>>

SetVolume == \E raw \in (0 - VolOver)..(VolSteps + VolOver) : VolumeChange(raw)

ToggleMute ==
  /\ IsTrack(player.currentTrack)
  /\ player' = toggleMute(player)
  /\ lastOp' = "toggleMute"
  /\ UNCHANGED <<home, vis, settings, lib, tabs, store, upload>>

\* a click on the progress bar, at its left or its right end
ClickFractions == {0, 1}

Seek ==
  \E fraction \in ClickFractions :
    /\ IsTrack(player.currentTrack)
    /\ player' = handleProgressClick(player, fraction)
    /\ lastOp' = "seek"
    /\ UNCHANGED <<home, vis, settings, lib, tabs, store, upload>>

\* the user flips the repeat setting
ToggleRepeat ==
  /\ settings' = updateSetting(settings, "repeat", ~settings.repeat)
  /\ lastOp' = "toggleRepeat"
  /\ UNCHANGED <<player, home, vis, lib, tabs, store, upload>>

NextPlayer ==
  \/ AddTrack \/ RemoveTrack \/ SelectTrack
  \/ Next_ \/ Previous \/ Ended
  \/ PlayOk \/ PlayRejected \/ Pause
  \/ TimeUpdate \/ LoadedMetadata
  \/ Seek \/ ToggleRepeat

SpecPlayer == Init /\ [][NextPlayer]_vars


(***************************************************************************)
(* Home page events                                                        *)
(***************************************************************************)
\* handleFileUpload with one MP3 file
HomeUpload ==
  \E song \in SongIds \ Range(home.songs) :
    /\ Len(home.songs) < MaxSongs
    /\ home' = handleFileUpload(home, song)
    /\ lastOp' = "homeUpload"
    /\ UNCHANGED <<player, vis, settings, lib, tabs, store, upload>>

\* a click on an entry of the song list
HomeSelectSong(song) ==
  /\ song \in Range(home.songs)
  /\ home.frames < MaxFrames
  /\ home' = playSong(home, song)
  /\ lastOp' = "homeSelectSong"
  /\ UNCHANGED <<player, vis, settings, lib, tabs, store, upload>>

HomeSelect == \E song \in SongIds : HomeSelectSong(song)

\* the play/pause button: isPlaying ? pauseSong() : playSong(currentSong)
HomePlayButton ==
  /\ home.currentSong # NoTrack
  /\ ~home.isPlaying
  /\ home.frames < MaxFrames
  /\ home' = playSong(home, home.currentSong)
  /\ lastOp' = "homePlay"
  /\ UNCHANGED <<player, vis, settings, lib, tabs, store, upload>>

HomePauseButton ==
  /\ home.currentSong # NoTrack
  /\ home.isPlaying
  /\ home' = pauseSong(home)
  /\ lastOp' = "homePause"
  /\ UNCHANGED <<player, vis, settings, lib, tabs, store, upload>>

\* a display-refresh tick runs one pending updateAudioData callback
HomeTick ==
  /\ home.frames > 0
  /\ home' = updateAudioData([home EXCEPT !.frames = @ - 1])
  /\ lastOp' = "homeTick"
  /\ UNCHANGED <<player, vis, settings, lib, tabs, store, upload>>

HomeTimeUpdate ==
  /\ home.audioPlaying
  /\ home.audioTime < DurationOf(home.audioSrc)
  /\ home' = [home EXCEPT !.audioTime = @ + 1, !.currentTime = home.audioTime + 1]
  /\ lastOp' = "homeTimeupdate"
  /\ UNCHANGED <<player, vis, settings, lib, tabs, store, upload>>

HomeLoadedMetadata ==
  /\ home.audioSrc \in SongIds \ UnbindableSongs
  /\ ~home.audioMeta
  /\ home' = [home EXCEPT !.audioMeta = TRUE, !.duration = DurationOf(home.audioSrc)]
  /\ lastOp' = "homeLoadedmetadata"
  /\ UNCHANGED <<player, vis, settings, lib, tabs, store, upload>>

\* onEnded={() => setIsPlaying(false)}
HomeEnded ==
  /\ home.audioPlaying
  /\ home.audioTime = DurationOf(home.audioSrc)
  /\ home' = [home EXCEPT !.audioPlaying = FALSE, !.isPlaying = FALSE]
  /\ lastOp' = "homeEnded"
  /\ UNCHANGED <<player, vis, settings, lib, tabs, store, upload>>

\* Home.handleVolumeChange; the slider is rendered while a song is current
HomeVolumeChange(raw) ==
  /\ home.currentSong # NoTrack
  /\ SliderValue(raw) # home.volume
  /\ home' = homeHandleVolumeChange(home, SliderValue(raw))
  /\ lastOp' = "homeVolume"
  /\ UNCHANGED <<player, vis, settings, lib, tabs, store, upload>>

\* the page is loaded again: a new document, whose mount effect reads the saved
\* songs; the blob URLs of the previous document are gone
HomeReload ==
  /\ home.stored # <<>>
  /\ home' = persistSongs([HomeInit EXCEPT !.songs = home.stored,
                                           !.stored = home.stored])
  /\ lastOp' = "homeReload"
  /\ UNCHANGED <<player, vis, settings, lib, tabs, store, upload>>

HomeSetVolume == \E raw \in (0 - VolOver)..(VolSteps + VolOver) : HomeVolumeChange(raw)

NextHome ==
  \/ HomeUpload \/ HomeSelect \/ HomePlayButton \/ HomePauseButton
  \/ HomeTick \/ HomeTimeUpdate \/ HomeLoadedMetadata \/ HomeEnded
  \/ HomeSetVolume \/ HomeReload

SpecHome == Init /\ [][NextHome]_vars

\* the volume controls of MusicPlayer, with what it takes to render them
NextVolume ==
  \/ AddTrack \/ SelectTrack \/ SetVolume \/ ToggleMute

SpecVolume == Init /\ [][NextVolume]_vars

(***************************************************************************)
(* AudioVisualizer events                                                  *)
(***************************************************************************)
ContextStates == {"suspended", "running"}

\* the parent mounts the visualizer; both effects run
VisMount ==
  \E e \in Elements \cup {NoTrack}, p \in BOOLEAN, st \in ContextStates :
    /\ ~vis.mounted
    /\ vis.pendingStale < MaxPending
    /\ vis' = DrawEffect(InitBody([VisInit EXCEPT !.mounted = TRUE, !.audioElement = e,
                                                  !.isPlaying = p,
                                                  !.pendingStale = vis.pendingStale,
                                                  !.connected = vis.connected], st))
    /\ lastOp' = "visMount"
    /\ UNCHANGED <<player, home, settings, lib, tabs, store, upload>>

\* the parent hands over another audio element (or none)
VisSetAudioElement ==
  \E e \in Elements \cup {NoTrack}, st \in ContextStates :
    /\ vis.mounted
    /\ e # vis.audioElement
    /\ vis.pendingLive + vis.pendingStale < MaxPending
    /\ vis' = InitBody([InitCleanup(vis) EXCEPT !.audioElement = e], st)
    /\ lastOp' = "visSetAudioElement"
    /\ UNCHANGED <<player, home, settings, lib, tabs, store, upload>>

\* the parent's isPlaying flips
VisSetPlaying ==
  /\ vis.mounted
  /\ vis' = DrawEffect([vis EXCEPT !.isPlaying = ~@])
  /\ lastOp' = "visSetPlaying"
  /\ UNCHANGED <<player, home, settings, lib, tabs, store, upload>>

\* audioContext.resume() settles for the effect instance that is still current
VisResumeSettled ==
  \E ok \in BOOLEAN :
    /\ vis.pendingLive > 0
    /\ vis' = LET r == [vis EXCEPT !.pendingLive = @ - 1,
                                   !.ctx = IF ok THEN "running" ELSE @]
              IN IF ok THEN setIsInitialized(r) ELSE r
    /\ lastOp' = "visResumeSettled"
    /\ UNCHANGED <<player, home, settings, lib, tabs, store, upload>>

\* audioContext.resume() settles for an effect instance whose cleanup has run;
\* React drops the state update of a component that is no longer mounted
VisStaleResumeSettled ==
  \E ok \in BOOLEAN :
    /\ vis.pendingStale > 0
    /\ vis' = LET r == [vis EXCEPT !.pendingStale = @ - 1,
                                   !.ctx = IF ok /\ vis.mounted THEN "running" ELSE @]
              IN IF ok /\ vis.mounted THEN setIsInitialized(r) ELSE r
    /\ lastOp' = "visStaleResumeSettled"
    /\ UNCHANGED <<player, home, settings, lib, tabs, store, upload>>

\* a display-refresh tick runs the pending draw callback
VisTick ==
  /\ vis.frames > 0
  /\ vis' = draw([vis EXCEPT !.frames = @ - 1, !.refLive = FALSE])
  /\ lastOp' = "visTick"
  /\ UNCHANGED <<player, home, settings, lib, tabs, store, upload>>

\* unmount: the cleanups of both effects run; the component's refs and state go,
\* the resumes it awaited stay in flight
Unmounted(s) ==
  LET b == Teardown(s)
  IN [VisInit EXCEPT !.pendingStale = b.pendingStale + b.pendingLive,
                     !.frames = b.frames,
                     !.connected = b.connected]

VisUnmount ==
  /\ vis.mounted
  /\ vis' = Unmounted(vis)
  /\ lastOp' = "visUnmount"
  /\ UNCHANGED <<player, home, settings, lib, tabs, store, upload>>

NextVis ==
  \/ VisMount \/ VisSetAudioElement \/ VisSetPlaying
  \/ VisResumeSettled \/ VisStaleResumeSettled \/ VisTick \/ VisUnmount

SpecVis == Init /\ [][NextVis]_vars

(***************************************************************************)
(* useMusicLibrary events                                                  *)
(***************************************************************************)
LibAddTrack ==
  \E ok \in BOOLEAN :
    /\ Len(lib.library) < MaxLibrary
    /\ lib' = Render(addTrack(lib, ok))
    /\ lastOp' = "libAddTrack"
    /\ UNCHANGED <<player, home, vis, settings, tabs, store, upload>>

\* one handler adds two tracks (two files of one selection) before React
\* renders again
LibAddTwoTracks ==
  \E ok1, ok2 \in BOOLEAN :
    /\ Len(lib.library) < MaxLibrary
    /\ lib' = Render(addTrack(addTrack(lib, ok1), ok2))
    /\ lastOp' = "libAddTwoTracks"
    /\ UNCHANGED <<player, home, vis, settings, tabs, store, upload>>

LibRemoveTrack ==
  \E id \in Range(lib.library), ok \in BOOLEAN :
    /\ lib' = Render(removeTrack(lib, id, ok))
    /\ lastOp' = "libRemoveTrack"
    /\ UNCHANGED <<player, home, vis, settings, tabs, store, upload>>

LibClearLibrary ==
  \E ok \in BOOLEAN :
    /\ lib.library # <<>>
    /\ lib' = Render(clearLibrary(lib, ok))
    /\ lastOp' = "libClearLibrary"
    /\ UNCHANGED <<player, home, vis, settings, tabs, store, upload>>

\* a millisecond passes: Date.now() returns the next value
ClockTick ==
  /\ lib.now < MaxClock
  /\ lib' = [lib EXCEPT !.now = @ + 1]
  /\ lastOp' = "clockTick"
  /\ UNCHANGED <<player, home, vis, settings, tabs, store, upload>>

NextLibrary ==
  \/ LibAddTrack \/ LibAddTwoTracks \/ LibRemoveTrack \/ LibClearLibrary
  \/ ClockTick

SpecLibrary == Init /\ [][NextLibrary]_vars

(***************************************************************************)
(* useLocalStorage events in two tabs                                      *)
(***************************************************************************)
\* a handler of tab t calls setValue; the write succeeds
TabSetValue ==
  \E t \in TabIds, value \in Values :
    /\ Len(tabs.events[OtherTab(t)]) < MaxEvents
    /\ tabs' = tabSetValue(tabs, t, value)
    /\ lastOp' = "tabSetValue"
    /\ UNCHANGED <<player, home, vis, settings, lib, store, upload>>

\* the browser delivers the oldest storage event queued for tab t
TabStorageEvent ==
  \E t \in TabIds :
    /\ tabs.events[t] # <<>>
    /\ tabs' = handleStorageChange(tabs, t)
    /\ lastOp' = "tabStorageEvent"
    /\ UNCHANGED <<player, home, vis, settings, lib, store, upload>>

NextTabs == TabSetValue \/ TabStorageEvent

SpecTabs == Init /\ [][NextTabs]_vars

(***************************************************************************)
(* Audio storage events                                                    *)
(***************************************************************************)
SaveOutcomes == {"ok", "QuotaExceededError", "SecurityError"}

audioCount(items) == Len(SelectSeq(items, LAMBDA e : e.audio))

StoreSave ==
  \E outcome \in SaveOutcomes, retryOk \in BOOLEAN :
    /\ Len(store.items) < MaxItems
    /\ store' = saveToLocalStorage(store, outcome, retryOk)
    /\ lastOp' = "storeSave"
    /\ UNCHANGED <<player, home, vis, settings, lib, tabs, upload>>

\* one of the hooks writes its key, which has no 'audio_' prefix
StoreHookWrite ==
  /\ Len(store.items) < MaxItems
  /\ \A i \in 1..Len(store.items) : store.items[i].audio
  /\ store' = [store EXCEPT !.items = Append(@, Entry(FALSE, FALSE, 0))]
  /\ lastOp' = "storeHookWrite"
  /\ UNCHANGED <<player, home, vis, settings, lib, tabs, upload>>

StoreClearOld ==
  /\ audioCount(store.items) > KeepRecent
  /\ store' = clearOldAudioData(store)
  /\ lastOp' = "storeClearOld"
  /\ UNCHANGED <<player, home, vis, settings, lib, tabs, upload>>

StoreClockTick ==
  /\ store.now < MaxStoreClock
  /\ store' = [store EXCEPT !.now = @ + 1]
  /\ lastOp' = "storeClockTick"
  /\ UNCHANGED <<player, home, vis, settings, lib, tabs, upload>>

NextStore == StoreSave \/ StoreHookWrite \/ StoreClearOld \/ StoreClockTick

SpecStore == Init /\ [][NextStore]_vars

(***************************************************************************)
(* FileUpload events                                                       *)
(***************************************************************************)
\* handleFileInputChange and handleDrop: the first file of the selection
FileSelect ==
  \E file \in Files :
    /\ upload.calls < MaxUploads
    /\ upload' = handleFileSelect(upload, TRUE, file)
    /\ lastOp' = "fileSelect"
    /\ UNCHANGED <<player, home, vis, settings, lib, tabs, store>>

\* the dialog is closed, or something that is no file is dropped
FileSelectNone ==
  /\ upload.uploadError # ""
  /\ upload' = handleFileSelect(upload, FALSE, NoFile)
  /\ lastOp' = "fileSelectNone"
  /\ UNCHANGED <<player, home, vis, settings, lib, tabs, store>>

NextUpload == FileSelect \/ FileSelectNone

SpecUpload == Init /\ [][NextUpload]_vars

(***************************************************************************)
(* Claims about MusicPlayer                                                *)
(***************************************************************************)
InPlaylist == player.currentTrack \in Range(player.playlist)

C2_NextThenPrevious ==
  (Len(player.playlist) >= 2 /\ InPlaylist)
  => LET n == handleNext(player, player.playlist, player.currentTrack)
     IN handlePrevious(n, n.playlist, n.currentTrack).currentTrack = player.currentTrack

\* next() has just wrapped to index 0, so previous() takes its wrap branch
C2_Witness ==
  /\ lastOp = "next"
  /\ Len(player.playlist) = 3
  /\ findIndex(player.playlist, player.currentTrack) = 0

\* C3: with at most one entry in the playlist, next(), previous() and the
\* auto-advance on natural end leave the active track as it was, for every
\* active track, in the playlist or not.
C3_ShortPlaylistNoOp ==
  (Len(player.playlist) <= 1 /\ IsTrack(player.currentTrack))
  => /\ handleNext(player, player.playlist, player.currentTrack).currentTrack
          = player.currentTrack
     /\ handlePrevious(player, player.playlist, player.currentTrack).currentTrack
          = player.currentTrack
     /\ player.lsnOn => handleEnded(player).currentTrack = player.currentTrack

\* C4: with the active track absent from the playlist, next() and previous()
\* leave the active track as it was.
C4_MissingTrackNotGuessed ==
  [][((Next_ \/ Previous) /\ ~InPlaylist)
     => player'.currentTrack = player.currentTrack]_vars

\* C8: when the play request is rejected the playing flag does not become true.
C8_RejectedPlayNotPlaying ==
  [][PlayRejected => ~player'.isPlaying]_vars

\* clamp(v, 0, 1) on the volume grid
Clamp01(v) == IF v < 0 THEN 0 ELSE IF v > VolSteps THEN VolSteps ELSE v

\* C9: after setVolume(v) the stored volume is clamp(v, 0, 1), within [0, 1],
\* and with muted false it is the volume of the audio element.
C9_SetVolumeClamps ==
  [][\A raw \in (0 - VolOver)..(VolSteps + VolOver) :
       VolumeChange(raw)
       => /\ player'.volume \in 0..VolSteps
          /\ player'.volume = Clamp01(raw)
          /\ ~player'.isMuted => player'.audioVolume = Clamp01(raw)]_vars

\* the same for the slider of the Home page, which has no mute
HomeSetVolumeClamps ==
  [][\A raw \in (0 - VolOver)..(VolSteps + VolOver) :
       HomeVolumeChange(raw)
       => /\ home'.volume = Clamp01(raw)
          /\ home'.audioVolume = Clamp01(raw)]_vars

\* a volume strictly between 0 and 1 has been set and reached the element
C9_Witness ==
  /\ lastOp = "volume"
  /\ ~player.isMuted
  /\ player.volume \in 1..(VolSteps - 1)
  /\ player.audioVolume = player.volume

\* C10: toggleMute() twice restores muted and leaves the stored volume.
C10_ToggleMuteTwice ==
  IsTrack(player.currentTrack)
  => LET t == toggleMute(toggleMute(player))
     IN t.isMuted = player.isMuted /\ t.volume = player.volume

\* muted by the button, with a stored volume that is not 0
C10_Witness ==
  /\ lastOp = "toggleMute"
  /\ player.isMuted
  /\ player.volume > 0
  /\ player.audioVolume = 0

\* C11: setVolume(v) leaves the muted flag as it was.
C11_SetVolumeKeepsMuted ==
  [][\A raw \in (0 - VolOver)..(VolSteps + VolOver) :
       VolumeChange(raw) => player'.isMuted = player.isMuted]_vars

\* C12: whenever an audio element is mounted its volume is muted ? 0 : volume.
C12_AudioVolumeFollowsState ==
  player.audioMounted => player.audioVolume = EffectiveVolume(player)

\* C13: a seek puts the playback position within [0, duration of the active
\* track] and leaves the play/pause status as it was.
C13_SeekWithinDuration ==
  [][Seek
     => /\ player'.currentTime \in 0..DurationOf(player.currentTrack)
        /\ player'.isPlaying = player.isPlaying]_vars

\* C14: a track change made by next(), previous() or auto-advance does not
\* leave the playing flag true: the flag is true only while the audio element
\* plays the active track.
C14_TrackChangeLeavesPlaying ==
  [][((Next_ \/ Previous \/ Ended) /\ player'.currentTrack # player.currentTrack)
     => (player'.isPlaying => player'.audioPlaying)]_vars

\* C15: a natural end on a playlist whose only track is the active one leaves
\* that track active; without repeat the player is then not playing, with
\* repeat the track is played again.
C15_SingleTrackEnd ==
  [][(/\ Ended
      /\ Len(player.playlist) = 1
      /\ InPlaylist
      /\ player.lsnPlaylist = player.playlist)
     => /\ player'.currentTrack = player.currentTrack
        /\ ~settings.repeat => ~player'.isPlaying /\ ~player'.audioPlaying
        /\ settings.repeat => player'.isPlaying /\ player'.audioPlaying]_vars

\* C16: a natural end advances to the track after the active one in the
\* playlist as it is when the track ends.
C16_EndedUsesCurrentPlaylist ==
  [][(Ended /\ Len(player.playlist) >= 2 /\ InPlaylist)
     => player'.currentTrack =
          player.playlist[((findIndex(player.playlist, player.currentTrack) + 1)
                           % Len(player.playlist)) + 1]]_vars

(***************************************************************************)
(* Claims about the sampling loops, teardown and loading                   *)
(***************************************************************************)
\* C5: in every state where the status is not Playing no animation-frame
\* callback of a sampling loop is armed, for the page-level loop and for the
\* AudioVisualizer draw loop.
C5_NoSamplingWhileNotPlaying ==
  /\ ~home.isPlaying => home.frames = 0
  /\ ~vis.isPlaying => vis.frames = 0

\* C6: a callback registered before a teardown (here the resume awaited by an
\* effect instance whose cleanup has run) changes no visualizer state when it
\* fires afterwards.
C6_StaleCallbackDiscarded ==
  [][VisStaleResumeSettled
     => /\ vis'.isInitialized = vis.isInitialized
        /\ vis'.frames = vis.frames
        /\ vis'.drawCleanup = vis.drawCleanup]_vars

\* C7: loading a track whose source cannot be bound leaves the status not
\* Playing and the active track as it was.
C7_UnbindableLoadRejected ==
  [][\A song \in UnbindableSongs :
       HomeSelectSong(song)
       => /\ ~home'.isPlaying
          /\ home'.currentSong = home.currentSong]_vars

\* C17: while the visualizer is playing, initialized and has an audio element,
\* a draw callback is armed.
C17_SamplingStaysArmed ==
  (/\ vis.mounted /\ vis.isPlaying /\ vis.isInitialized
   /\ vis.audioElement # NoTrack /\ vis.ctx # "none")
  => vis.frames > 0

\* C18: running the effect cleanups twice leaves the state that running them
\* once leaves, and no draw callback is armed afterwards.
C18_TeardownIdempotent ==
  LET once == Teardown(vis)
  IN Teardown(once) = once /\ once.frames = 0

\* a cleanup has cancelled the frame the draw loop had armed
C18_Witness ==
  /\ lastOp = "visSetAudioElement"
  /\ vis.isPlaying /\ vis.isInitialized
  /\ vis.refSet /\ ~vis.refLive
  /\ vis.frames = 0

\* C19: each controller instance creates and connects its media-element source
\* at most once, however often play is called.
C19_GraphConnectedOnce ==
  home.connects <= 1 /\ vis.connects <= 1

\* the page has been asked to play at least twice and built one graph
C19_Witness ==
  /\ lastOp \in {"homeSelectSong", "homePlay"}
  /\ home.isPlaying
  /\ home.frames >= 2
  /\ home.connects = 1

\* the visualizer half of C19, with the element remounted and replaced
VisGraphConnectedOnce ==
  /\ vis.connects <= 1
  /\ vis.source # NoTrack => vis.source \in vis.connected

\* C20: no two tracks of the library share an id.
C20_LibraryIdsUnique ==
  \A i, j \in 1..Len(lib.library) : lib.library[i] = lib.library[j] => i = j

\* C23: on the page-level player at most one self-re-arming animation-frame
\* callback is pending, whatever sequence of play, pause and natural-end
\* events came before.
C23_OneSamplingLoop == home.frames <= 1

\* C24: pausing the current song and playing it again leaves the playback
\* position where it was at the pause.
C24_PauseThenPlayResumes ==
  (home.currentSong # NoTrack /\ home.isPlaying /\ home.audioPlaying)
    => playSong(pauseSong(home), home.currentSong).audioTime = home.audioTime

\* C21: the page-level player is never reported as playing a song whose
\* source handle (blob URL) does not belong to the running document: a song
\* restored from storage after a reload is not playing unless its handle
\* has been acquired again.
C21_NoPlayThroughDisposedHandle ==
  (home.isPlaying /\ home.currentSong # NoTrack) => home.currentSong \in home.live

\* C25: no library update is lost: two addTrack calls issued before the
\* component renders again leave both tracks in the library, in memory and
\* in storage, in insertion order.
C25_NoLostLibraryUpdate ==
  LET two == Render(addTrack(addTrack(lib, TRUE), TRUE))
  IN /\ two.library = lib.library \o <<lib.now, lib.now>>
     /\ two.item = two.library

\* C26: after every completed setValue call of the library hook the value in
\* memory equals the value persisted under its key, also when the write threw.
C26_MemoryEqualsStorage ==
  lastOp \in {"libAddTrack", "libAddTwoTracks", "libRemoveTrack", "libClearLibrary"}
    => lib.library = lib.item

\* C22: last write wins across tabs: once every storage event has been
\* delivered, the value each tab holds in memory is the value last written
\* to storage.
C22_LastWriteWins ==
  (tabs.item # NoItem /\ \A t \in TabIds : tabs.events[t] = <<>>)
    => \A t \in TabIds : tabs.storedValue[t] = JSONparse(tabs.item)

(***************************************************************************)
(* Claims about the audio storage utilities                                *)
(***************************************************************************)
audioAtLeast(items, t) ==
  Len(SelectSeq(items, LAMBDA e : e.audio /\ timestampOr0(e) >= t))

\* C27: after clearOldAudioData at most 5 'audio_' entries remain, they are
\* the 5 with the greatest timestamps among those present before (an entry
\* without a timestamp ranks as 0, as in the sort), and the entries without
\* the prefix are unchanged.
C27_KeepsFiveMostRecent ==
  LET before == store.items
      after == clearOldAudioData(store).items
  IN /\ audioCount(after) <= KeepRecent
     /\ \A t \in 0..MaxStoreClock :
          audioAtLeast(after, t) = Min({KeepRecent, audioAtLeast(before, t)})
     /\ SelectSeq(after, LAMBDA e : ~e.audio) = SelectSeq(before, LAMBDA e : ~e.audio)

C27_Witness ==
  /\ lastOp = "storeClearOld"
  /\ audioCount(store.items) = KeepRecent
  /\ \E i \in 1..Len(store.items) : ~store.items[i].audio
  /\ \E i, j \in 1..Len(store.items) :
       /\ store.items[i].audio /\ store.items[j].audio
       /\ timestampOr0(store.items[i]) # timestampOr0(store.items[j])

\* C28: every 'audio_' entry carries the timestamp of its save, and an entry
\* that saveToLocalStorage has just written is not removed by the next
\* clearOldAudioData while an entry saved earlier survives.
C28_SavedEntryCarriesTimestamp ==
  /\ \A i \in 1..Len(store.items) : store.items[i].audio => store.items[i].hasTs
  /\ \A outcome \in SaveOutcomes, retryOk \in BOOLEAN :
       LET saved == saveToLocalStorage(store, outcome, retryOk).items
           n == Len(saved)
           gone == Range(tracksToRemove(getAllSavedTracks(saved)))
       IN (outcome = "ok" \/ (outcome = "QuotaExceededError" /\ retryOk))
            => \/ n \notin gone
               \/ \A i \in 1..n : (saved[i].audio /\ i \notin gone)
                                    => saved[i].savedAt >= store.now

(***************************************************************************)
(* Claims about FileUpload                                                 *)
(***************************************************************************)
\* an MP3 by MIME type or by name, smaller than 50 MB
IsAcceptableMp3(file) ==
  /\ file.type = "audio/mpeg" \/ endsWithMp3(toLowerCase(file.name))
  /\ file.size < SizeLimit

\* C29: a selected file reaches onFileUpload if and only if it is an MP3 of
\* less than 50 MB; a rejected file does not reach it and leaves an error
\* message; an accepted file leaves no error message from before.
C29_UploadIffSmallMp3 ==
  \A file \in Files :
    LET r == handleFileSelect(upload, TRUE, file)
        passed == r.calls = upload.calls + 1 /\ r.uploaded = file
    IN /\ passed <=> IsAcceptableMp3(file)
       /\ ~passed => (r.uploadError # "" /\ r.calls = upload.calls
                      /\ r.uploaded = upload.uploaded)
       /\ passed => r.uploadError = ""

\* the part of C29 that does not depend on the size limit or on how the MIME
\* type is matched
UploadRejectsWithError ==
  \A file \in Files :
    LET r == handleFileSelect(upload, TRUE, file)
    IN \/ r.calls = upload.calls + 1 /\ r.uploaded = file /\ r.uploadError = ""
       \/ r.calls = upload.calls /\ r.uploaded = upload.uploaded /\ r.uploadError # ""

====
